---- MODULE Spec2Model ----
(***************************************************************************)
(* Poros Protocol: cryptographic identity (DID, canonical-JSON signing and *)
(* verification) and the orchestrator (discover, rank, select, dispatch,   *)
(* aggregate, log, respond).                                               *)
(*                                                                         *)
(* Text is a sequence of one-character strings; bytes are 0..255.          *)
(* Ed25519 is the ideal signature scheme: a signature is the pair (signing *)
(* key, signed bytes) and verifies only for that key and those bytes.      *)
(***************************************************************************)
EXTENDS Integers, Sequences, FiniteSets, TLC

VARIABLES
    generated,      \* the (did, private_key_pem) pairs generate_keypair has returned
    lastSign,       \* the last sign_agent_card call: its inputs and outcome
    lastVerify,     \* the last verify_agent_card call: its inputs and outcome
    directory,      \* the registered_agents table, rows in insertion order
    req,            \* the orchestrate requests in flight, by request slot
    logs,           \* the orchestration_logs table
    served,         \* number of orchestrate requests accepted so far
    rank,           \* a rank_agents call: its arguments, scores and result
    relay           \* a call of a verb endpoint: its arguments, target and outcome

vars == <<generated, lastSign, lastVerify, directory, req, logs, served, rank, relay>>
idVars == <<generated, lastSign, lastVerify>>
orchVars == <<directory, req, logs, served>>

\* ---------------------------------------------------------------- bounds
\* number of distinct keypairs the key generator can produce in the model
NumKeys == 2
\* largest number of top-level fields of a record
MaxFields == 2

\* ---------------------------------------------------------------- helpers
\* no rank_agents call is being looked at
NoRankCall == [pc |-> "none"]

\* no verb endpoint has been called
NoRelayCall ==
    [pc |-> "idle", verb |-> "none", agent_did |-> "", capability |-> "",
     to |-> "", to_active |-> FALSE, found |-> <<>>, outcome |-> "none",
     status |-> 0, passed |-> FALSE]

Range(s) == {s[i] : i \in 1..Len(s)}

Min(a, b) == IF a < b THEN a ELSE b

Max(a, b) == IF a > b THEN a ELSE b

\* s[:n] and s[n:] of Python for 0 <= n
Take(s, n) == SubSeq(s, 1, Min(n, Len(s)))

Drop(s, n) == SubSeq(s, Min(n, Len(s)) + 1, Len(s))

\* ---------------------------------------------------------------- base64
\* The base64 alphabet without its last two characters.
B64Common ==
    <<"A","B","C","D","E","F","G","H","I","J","K","L","M","N","O","P",
      "Q","R","S","T","U","V","W","X","Y","Z","a","b","c","d","e","f",
      "g","h","i","j","k","l","m","n","o","p","q","r","s","t","u","v",
      "w","x","y","z","0","1","2","3","4","5","6","7","8","9">>

UrlAlphabet == B64Common \o <<"-", "_">>

StdAlphabet == B64Common \o <<"+", "/">>

\* str.translate of urlsafe_b64decode: "-" becomes "+", "_" becomes "/"
UrlToStd(s) ==
    [i \in 1..Len(s) |-> IF s[i] = "-" THEN "+" ELSE IF s[i] = "_" THEN "/" ELSE s[i]]

StdValue(c) == (CHOOSE i \in 1..64 : StdAlphabet[i] = c) - 1

RECURSIVE B64EncodeFrom(_, _, _)
\* base64 of bytes b from index i on, in alphabet alpha, "=" padded
B64EncodeFrom(b, i, alpha) ==
    LET n == Len(b) - i + 1 IN
    IF n <= 0 THEN <<>>
    ELSE IF n = 1 THEN
        <<alpha[(b[i] \div 4) + 1], alpha[((b[i] % 4) * 16) + 1], "=", "=">>
    ELSE IF n = 2 THEN
        <<alpha[(b[i] \div 4) + 1],
          alpha[((b[i] % 4) * 16 + (b[i+1] \div 16)) + 1],
          alpha[((b[i+1] % 16) * 4) + 1], "=">>
    ELSE
        <<alpha[(b[i] \div 4) + 1],
          alpha[((b[i] % 4) * 16 + (b[i+1] \div 16)) + 1],
          alpha[((b[i+1] % 16) * 4 + (b[i+2] \div 64)) + 1],
          alpha[(b[i+2] % 64) + 1]>> \o B64EncodeFrom(b, i + 3, alpha)

urlsafe_b64encode(b) == B64EncodeFrom(b, 1, UrlAlphabet)

RECURSIVE RStripPad(_)
\* str.rstrip('=')
RStripPad(s) ==
    IF Len(s) > 0 /\ s[Len(s)] = "=" THEN RStripPad(SubSeq(s, 1, Len(s) - 1)) ELSE s

RECURSIVE a2b_base64(_, _, _, _, _, _)
\* binascii.a2b_base64 in its default (non-strict) mode: characters outside the
\* alphabet are skipped, a complete pad sequence ends the parse, and data left
\* in an unfinished quad is an error.
a2b_base64(s, i, quad, left, pads, out) ==
    IF i > Len(s) THEN
        IF quad # 0 THEN [ok |-> FALSE, bytes |-> <<>>] ELSE [ok |-> TRUE, bytes |-> out]
    ELSE IF s[i] = "=" THEN
        IF quad >= 2 /\ quad + pads + 1 >= 4 THEN [ok |-> TRUE, bytes |-> out]
        ELSE a2b_base64(s, i + 1, quad, left, IF quad >= 2 THEN pads + 1 ELSE pads, out)
    ELSE IF s[i] \notin Range(StdAlphabet) THEN
        a2b_base64(s, i + 1, quad, left, pads, out)
    ELSE
        LET v == StdValue(s[i]) IN
        CASE quad = 0 -> a2b_base64(s, i + 1, 1, v, 0, out)
          [] quad = 1 ->
                a2b_base64(s, i + 1, 2, v % 16, 0, Append(out, left * 4 + (v \div 16)))
          [] quad = 2 ->
                a2b_base64(s, i + 1, 3, v % 4, 0, Append(out, left * 16 + (v \div 4)))
          [] OTHER ->
                a2b_base64(s, i + 1, 0, 0, 0, Append(out, left * 64 + v))

urlsafe_b64decode(s) == a2b_base64(UrlToStd(s), 1, 0, 0, 0, <<>>)

\* ---------------------------------------------------------------- keys and DIDs
\* length of a raw Ed25519 public key, checked by Ed25519PublicKey.from_public_bytes
Ed25519KeyLen == 32

KeyIds == 1..NumKeys

\* the raw public bytes of the k-th keypair the generator can produce
PublicBytes(k) == [i \in 1..Ed25519KeyLen |-> (k * 37 + i * 11) % 256]

\* the PKCS8 PEM export of the k-th private key, and a text that is no PEM
PemOf(k) == [valid |-> TRUE, key |-> k]

BadPem == [valid |-> FALSE, key |-> 0]

DidPrefix == <<"d","i","d",":","p","o","r","o","s",":","e","d","2","5","5","1","9",":">>

\* the DID built from raw public bytes: prefix + unpadded urlsafe base64
DidFromPublic(pub) == DidPrefix \o RStripPad(urlsafe_b64encode(pub))

\* generate_keypair() when the generator draws the k-th keypair
generate_keypair(k) == [did |-> DidFromPublic(PublicBytes(k)), pem |-> PemOf(k)]

\* str.startswith
StartsWith(s, p) == Len(s) >= Len(p) /\ SubSeq(s, 1, Len(p)) = p

RECURSIVE LastSegmentFrom(_, _)
LastSegmentFrom(s, i) ==
    IF i = 0 \/ s[i] = ":" THEN SubSeq(s, i + 1, Len(s)) ELSE LastSegmentFrom(s, i - 1)

\* did.split(":")[-1]
LastSegment(s) == LastSegmentFrom(s, Len(s))

\* the "=" padding verify_agent_card adds to the key segment
PadKey(seg) ==
    LET padding == 4 - (Len(seg) % 4) IN
    IF padding # 4 THEN seg \o [i \in 1..padding |-> "="] ELSE seg

\* ---------------------------------------------------------------- records
\* A record is a Python dict: a sequence of [k, v] pairs with distinct keys, in
\* insertion order.  A value is a string, a nested dict of strings, or an object
\* json cannot serialize.
Str(x) == [t |-> "str", s |-> x, d |-> <<>>]

Dict(d) == [t |-> "dict", s |-> "", d |-> d]

Obj == [t |-> "obj", s |-> "", d |-> <<>>]

\* the keys of the model in the order Python sorts them
KeyOrder == <<"amount", "model", "name", "pricing", "signature">>

KeyRank(k) == CHOOSE i \in 1..Len(KeyOrder) : KeyOrder[i] = k

RECURSIVE SortByKey(_)
\* sorted(dct.items()) for distinct keys: insertion sort on the key
SortByKey(ps) ==
    IF Len(ps) <= 1 THEN ps
    ELSE LET rest == SortByKey(Tail(ps))
             p == Head(ps)
             n == Cardinality({i \in 1..Len(rest) : KeyRank(rest[i].k) < KeyRank(p.k)})
         IN SubSeq(rest, 1, n) \o <<p>> \o SubSeq(rest, n + 1, Len(rest))

JsonString(x) == <<"\"", x, "\"">>

RECURSIVE JoinItems(_)
\* the items of a JSON object joined by "," (separators=(',', ':'))
JoinItems(items) ==
    IF Len(items) = 0 THEN <<>>
    ELSE IF Len(items) = 1 THEN items[1]
    ELSE items[1] \o <<",">> \o JoinItems(Tail(items))

JsonValue(v, sortKeys) ==
    IF v.t = "str" THEN JsonString(v.s)
    ELSE LET ps == IF sortKeys THEN SortByKey(v.d) ELSE v.d IN
         <<"{">> \o JoinItems([i \in 1..Len(ps) |->
                        JsonString(ps[i].k) \o <<":">> \o JsonString(ps[i].s)]) \o <<"}">>

\* json.dumps(rec, sort_keys=sortKeys, separators=(',', ':')): the text, or a
\* TypeError when a value is not serializable
JsonDumps(rec, sortKeys) ==
    IF \E i \in 1..Len(rec) : rec[i].v.t = "obj" THEN [ok |-> FALSE, text |-> <<>>]
    ELSE LET ps == IF sortKeys THEN SortByKey(rec) ELSE rec IN
         [ok |-> TRUE,
          text |-> <<"{">> \o JoinItems([i \in 1..Len(ps) |->
                        JsonString(ps[i].k) \o <<":">> \o JsonValue(ps[i].v, sortKeys)])
                   \o <<"}">>]

\* a canonicalization that forgets sort_keys
CanonicalUnsorted(rec) == JsonDumps(rec, FALSE)

\* the canonical bytes the backend signer signs
CanonicalSign(rec) == JsonDumps(rec, TRUE)

\* the canonical bytes the backend verifier checks
CanonicalVerify(rec) == JsonDumps(rec, TRUE)

\* the canonical bytes the SDK signer signs
CanonicalSdk(rec) == JsonDumps(rec, TRUE)

\* {k: v for k, v in card.items() if k != 'signature'}
StripSignature(rec) == SelectSeq(rec, LAMBDA p : p.k # "signature")

\* the key -> value mapping of a dict, whatever its insertion order
AsMapping(rec) ==
    {<<rec[i].k, IF rec[i].v.t = "dict"
                 THEN [t |-> "dict", s |-> "", d |-> Range(rec[i].v.d)]
                 ELSE rec[i].v>> : i \in 1..Len(rec)}

\* the nested dicts of the model's records
InnerDicts ==
    { <<[k |-> "model", s |-> "free"], [k |-> "amount", s |-> "0"]>>,
      <<[k |-> "amount", s |-> "0"], [k |-> "model", s |-> "free"]>>,
      <<[k |-> "model", s |-> "paid"], [k |-> "amount", s |-> "0"]>> }

FieldChoices ==
    {[k |-> "name", v |-> Str(x)] : x \in {"Demo Agent", "Hacked Agent"}}
    \cup {[k |-> "signature", v |-> Str("sig")]}
    \cup {[k |-> "pricing", v |-> Dict(d)] : d \in InnerDicts}

RECURSIVE RecordsUpTo(_)
\* every dict of at most n fields drawn from FieldChoices
RecordsUpTo(n) ==
    IF n = 0 THEN {<<>>}
    ELSE LET prev == RecordsUpTo(n - 1) IN
         prev \cup UNION {{Append(r, p) : p \in {q \in FieldChoices :
                                                  \A i \in 1..Len(r) : r[i].k # q.k}}
                          : r \in {x \in prev : Len(x) = n - 1}}

\* a record holding a value json cannot serialize
Unserializable == <<[k |-> "name", v |-> Obj]>>

Records == RecordsUpTo(MaxFields) \cup {Unserializable}

\* ---------------------------------------------------------------- signatures
\* A signature text: the base64 of the ideal Ed25519 signature of msg by key
\* signer ("b64"), the base64 of 64 bytes no key produced ("garbage"), a text
\* base64.b64decode rejects ("undecodable"), or the empty text ("none").
NoSig == [kind |-> "none", signer |-> 0, msg |-> <<>>]

GarbageSig == [kind |-> "garbage", signer |-> 0, msg |-> <<>>]

UndecodableSig == [kind |-> "undecodable", signer |-> 0, msg |-> <<>>]

\* base64.b64encode(private_key.sign(message))
SignBytes(k, msg) == [kind |-> "b64", signer |-> k, msg |-> msg]

\* a verification that never looks at the key
Ed25519VerifyAnyKey(pub, sig, msg) == sig.kind = "b64" /\ sig.msg = msg

\* public_key.verify(signature, message) for the key with raw bytes pub: TRUE when
\* it returns, FALSE when it raises InvalidSignature
Ed25519Verify(pub, sig, msg) ==
    /\ sig.kind = "b64"
    /\ sig.signer \in KeyIds
    /\ PublicBytes(sig.signer) = pub
    /\ sig.msg = msg

\* what a call leaves behind: the value returned, or the exception raised
Returned(sig, msg) == [status |-> "ok", sig |-> sig, msg |-> msg]

Raised(msg) == [status |-> "raised", sig |-> NoSig, msg |-> msg]

\* identity.sign_agent_card(agent_card_dict, private_key_pem)
sign_agent_card(rec, pem) ==
    LET canonical == CanonicalSign(rec) IN
    IF ~canonical.ok THEN Raised(<<>>)
    ELSE IF ~pem.valid THEN Raised(canonical.text)
    ELSE Returned(SignBytes(pem.key, canonical.text), canonical.text)

\* poros_sdk.identity.sign_agent_card(agent_card, private_key_pem)
sdk_sign_agent_card(rec, pem) ==
    LET canonical == CanonicalSdk(rec) IN
    IF ~canonical.ok THEN Raised(<<>>)
    ELSE IF ~pem.valid THEN Raised(canonical.text)
    ELSE Returned(SignBytes(pem.key, canonical.text), canonical.text)

\* texts handed to verify as the DID of key k: the DID itself and malformed
\* or respelled forms of it
DidVariants(k) ==
    LET d == generate_keypair(k).did
        key == Drop(d, Len(DidPrefix))
    IN { d,
         d \o <<"=">>,
         key,
         DidPrefix,
         Take(d, Len(d) - 1),
         Take(d, Len(d) - 2),
         d \o <<"!">>,
         DidPrefix \o <<"x", ":">> \o key,
         DidPrefix \o UrlToStd(key),
         <<"d","i","d",":","p","o","r","o","s",":","r","s","a",":">> \o key }

AllDids == UNION {DidVariants(k) : k \in KeyIds}

GeneratedDids == {generate_keypair(k).did : k \in KeyIds}

\* the key bytes verify_agent_card decodes from a DID: the last ":" segment,
\* padded, through urlsafe_b64decode
KeySegmentBytes(did) == urlsafe_b64decode(PadKey(LastSegment(did)))

\* KeySegmentBytes, computed once for each DID text of the model
KeySegmentTable == [d \in AllDids |-> KeySegmentBytes(d)]

DecodeKeySegment(did) ==
    IF did \in AllDids THEN KeySegmentTable[did] ELSE KeySegmentBytes(did)

\* the body of verify_agent_card's try block: how it ends, and the bytes it
\* canonicalized when it got that far
VerifyTry(rec, sig, did) ==
    IF ~StartsWith(did, DidPrefix) THEN [end |-> "return False", msg |-> <<>>]
    ELSE
        LET decoded == DecodeKeySegment(did)
            canonical == CanonicalVerify(rec)
        IN
        IF ~decoded.ok THEN [end |-> "binascii.Error", msg |-> <<>>]
        ELSE IF Len(decoded.bytes) # Ed25519KeyLen THEN [end |-> "ValueError", msg |-> <<>>]
        ELSE IF ~canonical.ok THEN [end |-> "TypeError", msg |-> <<>>]
        ELSE IF sig.kind = "undecodable"
            THEN [end |-> "binascii.Error", msg |-> canonical.text]
        ELSE IF Ed25519Verify(decoded.bytes, sig, canonical.text)
            THEN [end |-> "return True", msg |-> canonical.text]
        ELSE [end |-> "InvalidSignature", msg |-> canonical.text]

\* a handler that catches InvalidSignature alone
ExceptInvalidSignatureOnly(end) ==
    CASE end = "return True" -> "True"
      [] end = "return False" -> "False"
      [] end = "InvalidSignature" -> "False"
      [] OTHER -> "raised"

\* a handler that takes a mismatch for a match
ExceptAccepts(end) ==
    CASE end = "return True" -> "True"
      [] end = "InvalidSignature" -> "True"
      [] OTHER -> "False"

\* verify_agent_card's except clauses: InvalidSignature and every other
\* Exception end in False
ExceptClauses(end) ==
    CASE end = "return True" -> "True"
      [] end = "return False" -> "False"
      [] end = "InvalidSignature" -> "False"
      [] OTHER -> "False"

\* identity.verify_agent_card(agent_card_dict, signature_b64, did)
verify_agent_card(rec, sig, did) ==
    LET try == VerifyTry(rec, sig, did) IN
    [result |-> ExceptClauses(try.end), end |-> try.end, msg |-> try.msg]

\* POST /api/identity/sign-agent-card: the signature, or HTTP 400
api_sign_agent_card(rec, pem) == sign_agent_card(StripSignature(rec), pem)

\* POST /api/identity/verify-agent-card
api_verify_agent_card(rec, sig, did) == verify_agent_card(StripSignature(rec), sig, did)

\* ---------------------------------------------------------------- identity: actions
NoSignCall == [via |-> "none", rec |-> <<>>, pem |-> BadPem, out |-> Raised(<<>>)]

NoVerifyCall ==
    [via |-> "none", rec |-> <<>>, sig |-> NoSig, did |-> <<>>,
     out |-> [result |-> "none", end |-> "none", msg |-> <<>>]]

\* the signature texts a caller can hand to verify
SigChoices ==
    {GarbageSig, UndecodableSig}
    \cup (IF lastSign.out.status = "ok" THEN {lastSign.out.sig} ELSE {})

\* the argument triples of a verify call: any record with the signature that
\* was issued against a generated DID, or the signed record with any signature
\* text against any DID text
VerifyInputs ==
    {<<r, lastSign.out.sig, d>> : r \in Records, d \in GeneratedDids}
    \cup {<<lastSign.rec, s, d>> : s \in SigChoices, d \in AllDids}

IdentityInit ==
    /\ generated = {}
    /\ lastSign = NoSignCall
    /\ lastVerify = NoVerifyCall
    /\ directory = <<>>
    /\ req = <<>>
    /\ logs = <<>>
    /\ served = 0
    /\ rank = NoRankCall
    /\ relay = NoRelayCall

GenerateKeypair ==
    /\ lastSign.via = "none"
    /\ \E k \in KeyIds : generated' = generated \cup {generate_keypair(k)}
    /\ UNCHANGED <<lastSign, lastVerify, orchVars, rank, relay>>

SignModule ==
    /\ lastSign.via = "none"
    /\ \E rec \in Records, pem \in {kp.pem : kp \in generated} \cup {BadPem} :
          lastSign' = [via |-> "module", rec |-> rec, pem |-> pem,
                       out |-> sign_agent_card(rec, pem)]
    /\ UNCHANGED <<generated, lastVerify, orchVars, rank, relay>>

SignSdk ==
    /\ lastSign.via = "none"
    /\ \E rec \in Records, pem \in {kp.pem : kp \in generated} \cup {BadPem} :
          lastSign' = [via |-> "sdk", rec |-> rec, pem |-> pem,
                       out |-> sdk_sign_agent_card(rec, pem)]
    /\ UNCHANGED <<generated, lastVerify, orchVars, rank, relay>>

SignApi ==
    /\ lastSign.via = "none"
    /\ \E rec \in Records, pem \in {kp.pem : kp \in generated} \cup {BadPem} :
          lastSign' = [via |-> "api", rec |-> rec, pem |-> pem,
                       out |-> api_sign_agent_card(rec, pem)]
    /\ UNCHANGED <<generated, lastVerify, orchVars, rank, relay>>

VerifyModule ==
    /\ lastSign.via # "none"
    /\ lastVerify.via = "none"
    /\ \E in \in VerifyInputs :
          lastVerify' = [via |-> "module", rec |-> in[1], sig |-> in[2], did |-> in[3],
                         out |-> verify_agent_card(in[1], in[2], in[3])]
    /\ UNCHANGED <<generated, lastSign, orchVars, rank, relay>>

VerifyApi ==
    /\ lastSign.via # "none"
    /\ lastVerify.via = "none"
    /\ \E in \in VerifyInputs :
          lastVerify' = [via |-> "api", rec |-> in[1], sig |-> in[2], did |-> in[3],
                         out |-> api_verify_agent_card(in[1], in[2], in[3])]
    /\ UNCHANGED <<generated, lastSign, orchVars, rank, relay>>

IdentityNext ==
    \/ GenerateKeypair
    \/ SignModule
    \/ SignSdk
    \/ SignApi
    \/ VerifyModule
    \/ VerifyApi

SpecIdentity == IdentityInit /\ [][IdentityNext]_vars

\* ---------------------------------------------------------------- identity: claims
\* the last sign call returned a signature made with the private key of kp
SignedWith(kp) == lastSign.out.status = "ok" /\ lastSign.pem = kp.pem

\* C1: round trip.  A signature returned by sign_agent_card for a record under
\* a generated private key verifies for that record and the DID generated with
\* that key: verify_agent_card returns True.
C1_RoundTrip ==
    \A kp \in generated :
        ( /\ lastSign.via = "module" /\ SignedWith(kp)
          /\ lastVerify.via = "module"
          /\ lastVerify.rec = lastSign.rec
          /\ lastVerify.sig = lastSign.out.sig
          /\ lastVerify.did = kp.did )
        => lastVerify.out.result = "True"

C1_Witness ==
    \E kp \in generated :
        /\ lastSign.via = "module" /\ SignedWith(kp)
        /\ lastVerify.via = "module"
        /\ lastVerify.rec = lastSign.rec
        /\ Len(lastSign.rec) = 2 /\ lastSign.rec[1].k = "pricing"
        /\ lastVerify.sig = lastSign.out.sig
        /\ lastVerify.did = kp.did
        /\ lastVerify.out.result = "True"

\* C2: tamper rejection.  When the record handed to verify_agent_card differs
\* from the signed record in a field (a value changed at any depth, a field
\* added or removed), the original signature under the signer's DID is
\* rejected: the result is False.
C2_TamperRejected ==
    \A kp \in generated :
        ( /\ lastSign.via = "module" /\ SignedWith(kp)
          /\ lastVerify.via = "module"
          /\ AsMapping(lastVerify.rec) # AsMapping(lastSign.rec)
          /\ lastVerify.sig = lastSign.out.sig
          /\ lastVerify.did = kp.did )
        => lastVerify.out.result = "False"

C2_Witness ==
    \E kp \in generated :
        /\ lastSign.via = "module" /\ SignedWith(kp)
        /\ lastVerify.via = "module"
        /\ Len(lastSign.rec) = Len(lastVerify.rec)
        /\ {p.k : p \in Range(lastSign.rec)} = {p.k : p \in Range(lastVerify.rec)}
        /\ \E i \in 1..Len(lastSign.rec) :
              /\ lastSign.rec[i].v.t = "dict"
              /\ lastVerify.rec[i].v.t = "dict"
              /\ Range(lastSign.rec[i].v.d) # Range(lastVerify.rec[i].v.d)
        /\ lastVerify.sig = lastSign.out.sig
        /\ lastVerify.did = kp.did
        /\ lastVerify.out.end = "InvalidSignature"
        /\ lastVerify.out.result = "False"

\* C3: wrong-key rejection.  A signature made with keypair A's private key is
\* rejected under the DID of any other generated keypair B, whatever record is
\* presented: the result is False.
C3_WrongKeyRejected ==
    \A kpA \in generated : \A kpB \in generated \ {kpA} :
        ( /\ lastSign.via # "none" /\ SignedWith(kpA)
          /\ lastVerify.via # "none"
          /\ lastVerify.sig = lastSign.out.sig
          /\ lastVerify.did = kpB.did )
        => lastVerify.out.result = "False"

C3_Witness ==
    \E kpA \in generated : \E kpB \in generated \ {kpA} :
        /\ lastSign.via = "module" /\ SignedWith(kpA)
        /\ lastVerify.via = "module"
        /\ lastVerify.rec = lastSign.rec
        /\ lastVerify.sig = lastSign.out.sig
        /\ lastVerify.did = kpB.did
        /\ lastVerify.out.end = "InvalidSignature"
        /\ lastVerify.out.result = "False"

\* the DID, the key segment or the signature handed to the last verify call is
\* malformed, or the signature does not match
BadVerifyInput ==
    \/ ~StartsWith(lastVerify.did, DidPrefix)
    \/ ~DecodeKeySegment(lastVerify.did).ok
    \/ Len(DecodeKeySegment(lastVerify.did).bytes) # Ed25519KeyLen
    \/ lastVerify.sig.kind # "b64"
    \/ lastVerify.out.end # "return True"

\* C4: verify_agent_card fails closed.  Every call ends with True or False and
\* never with an exception, and a call whose DID lacks the prefix, whose key
\* segment does not decode to a key, or whose signature is undecodable or does
\* not match ends with False.
C4_FailsClosed ==
    lastVerify.via # "none" =>
        /\ lastVerify.out.result \in {"True", "False"}
        /\ BadVerifyInput => lastVerify.out.result = "False"

C4_Witness ==
    /\ lastVerify.via = "module"
    /\ StartsWith(lastVerify.did, DidPrefix)
    /\ lastVerify.out.end = "binascii.Error"
    /\ lastVerify.out.result = "False"

\* C5: the 'signature' field is never part of the signed payload, in the
\* identity module and the SDK as well: a signature made over a record
\* verifies for every record that equals it once the 'signature' field is
\* stripped from both.
C5_SignatureFieldNotSigned ==
    \A kp \in generated :
        ( /\ lastSign.via \in {"module", "sdk"} /\ SignedWith(kp)
          /\ lastVerify.via = "module"
          /\ StripSignature(lastVerify.rec) = StripSignature(lastSign.rec)
          /\ lastVerify.sig = lastSign.out.sig
          /\ lastVerify.did = kp.did )
        => lastVerify.out.result = "True"

\* both calls got as far as canonicalizing their record
BothCanonicalized ==
    /\ lastSign.via \in {"module", "sdk"} /\ lastSign.out.msg # <<>>
    /\ lastVerify.via = "module" /\ lastVerify.out.msg # <<>>

\* C6: canonicalization is order-independent and the same on both sides.  When
\* the signer (backend module or SDK) and the verifier canonicalize records
\* with the same keys and values at every level, in whatever insertion order,
\* they compute the same bytes.
C6_CanonicalOrderIndependent ==
    (BothCanonicalized /\ AsMapping(lastSign.rec) = AsMapping(lastVerify.rec))
        => lastSign.out.msg = lastVerify.out.msg

C6_Witness ==
    /\ BothCanonicalized
    /\ lastSign.via = "sdk"
    /\ AsMapping(lastSign.rec) = AsMapping(lastVerify.rec)
    /\ Len(lastSign.rec) = 2
    /\ lastSign.rec[1].k = lastVerify.rec[2].k
    /\ lastSign.rec[1].v # lastVerify.rec[2].v
    /\ lastSign.out.msg = lastVerify.out.msg

\* C29: whenever verify_agent_card(record, signature, d) returns true, d is
\* exactly 'did:poros:ed25519:' followed by the unpadded base64url text of the
\* public key that verified the signature, with no further colon segment, so
\* no second DID text verifies the same record and signature.
C29_DidIsCanonical ==
    (lastVerify.via = "module" /\ lastVerify.out.result = "True")
        => lastVerify.did = DidFromPublic(DecodeKeySegment(lastVerify.did).bytes)

\* ---------------------------------------------------------------- registry
\* Numbers the program keeps as floats are kept as integers in fixed units:
\* a score in units of 1/ScoreUnit point, success_rate in units of 1/RateUnit,
\* avg_latency_ms in units of 1/LatencyUnit ms.
ScoreUnit == 100000

RateUnit == 100000

LatencyUnit == 100

\* The AgentCards owners submit.  name and description are their lower-cased
\* word lists; a skill is [hasName, tags]: whether the skill object has a
\* "name" key, and its "tags" list.
AgentCards ==
    << [id |-> "acme/weather", name |-> <<"weather", "agent">>,
        description |-> <<"weather", "forecast">>, url |-> "http://weather",
        skills |-> <<[hasName |-> TRUE, tags |-> <<"weather">>]>>,
        tier |-> "free", missing |-> {}],
       [id |-> "acme/travel", name |-> <<"travel", "agent">>,
        description |-> <<"hotel", "booking">>, url |-> "http://travel",
        skills |-> <<[hasName |-> TRUE, tags |-> <<"hotel", "weather">>]>>,
        tier |-> "enterprise", missing |-> {}],
       [id |-> "bob/legacy", name |-> <<"legacy">>,
        description |-> <<"forecast">>, url |-> "http://legacy",
        skills |-> <<[hasName |-> FALSE, tags |-> <<"weather">>]>>,
        tier |-> "free", missing |-> {}],
       [id |-> "bob/draft", name |-> <<"draft">>,
        description |-> <<"draft">>, url |-> "",
        skills |-> <<>>, tier |-> "free", missing |-> {"url"}] >>

RECURSIVE Flatten(_)
\* skills_tags.extend(skill.get("tags", [])) over the skills
Flatten(skills) ==
    IF Len(skills) = 0 THEN <<>> ELSE Head(skills).tags \o Flatten(Tail(skills))

\* the RegisteredAgent row register_agent creates from a card
NewAgent(card) ==
    [agent_id |-> card.id, name |-> card.name, description |-> card.description,
     url |-> card.url, skills |-> card.skills, tier |-> card.tier,
     skills_tags |-> Flatten(card.skills), is_active |-> TRUE,
     total_calls |-> 0, success_rate |-> RateUnit, avg_latency_ms |-> 0]

\* register_agent: 400 on a missing required field, 409 on a taken agent_id,
\* else the row is added
register_agent(dir, card) ==
    IF card.missing # {} THEN dir
    ELSE IF \E i \in 1..Len(dir) : dir[i].agent_id = card.id THEN dir
    ELSE Append(dir, NewAgent(card))

\* ---------------------------------------------------------------- ranking
\* an Optional[List[str]]: None, or a list
None == [none |-> TRUE, list |-> <<>>]

Some(l) == [none |-> FALSE, list |-> l]

\* Python's truth value of an optional list: neither None nor empty
Truthy(opt) == ~opt.none /\ Len(opt.list) > 0

\* floor(log10(n) * ScoreUnit) for n = 1..16
Log10Table ==
    <<0, 30102, 47712, 60205, 69897, 77815, 84509, 90308, 95424, 100000,
      104139, 107918, 111394, 114612, 117609, 120411>>

RECURSIVE Log10(_)
\* math.log10(n) in units of 1/ScoreUnit for n >= 1: the table, and above it
\* 1 + log10 of n with its last digit dropped (exact at the powers of ten,
\* never above the true value, never decreasing)
Log10(n) ==
    IF n <= Len(Log10Table) THEN Log10Table[n] ELSE ScoreUnit + Log10(n \div 10)

\* the latency part of PerformanceRanking.score: nothing for an average of 0
\* (the default of an agent never measured), else 30 points falling by 6 for
\* every 1000 ms, not below 0
LatencyScore(agent) ==
    IF agent.avg_latency_ms > 0
    THEN Max(0, 30 * ScoreUnit
                - agent.avg_latency_ms * ((6 * ScoreUnit) \div (1000 * LatencyUnit)))
    ELSE 0

\* PerformanceRanking.score with 6 points for the success rate instead of 60
PerformanceScoreLowSuccessWeight(agent) ==
    agent.success_rate * 6 * (ScoreUnit \div RateUnit)
    + (IF agent.avg_latency_ms > 0
       THEN Max(0, 30 * ScoreUnit
                   - agent.avg_latency_ms * ((6 * ScoreUnit) \div (1000 * LatencyUnit)))
       ELSE 0)
    + (IF agent.total_calls > 0
       THEN Min(10 * ScoreUnit, Log10(agent.total_calls + 1) * 2)
       ELSE 0)

\* PerformanceRanking.score
PerformanceScore(agent) ==
    agent.success_rate * 60 * (ScoreUnit \div RateUnit)
    + LatencyScore(agent)
    + (IF agent.total_calls > 0
       THEN Min(10 * ScoreUnit, Log10(agent.total_calls + 1) * 2)
       ELSE 0)

\* Words of the model that are a proper part of another word of the model:
\* <<part, whole>>.
ProperParts == {<<"eat", "weather">>}

\* Python's `word in text` for a query word and a text of words: the word is a
\* substring of the text.  A query word holds no blank, so it lies within one
\* word of the text.
InText(word, text) ==
    \E w \in Range(text) : word = w \/ <<word, w>> \in ProperParts

\* SemanticRanking._score_with_keywords; query is the lower-cased word list
SemanticScore(agent, query) ==
    LET query_words == Range(query)
        desc_words == Range(agent.description)
        matching_words == query_words \cap desc_words
        overlap == IF Cardinality(query_words) > 0
                   THEN (Cardinality(matching_words) * 70 * ScoreUnit)
                            \div Cardinality(query_words)
                   ELSE 0
        bonus == IF \E word \in query_words : InText(word, agent.name)
                 THEN 30 * ScoreUnit ELSE 0
    IN Min(overlap + bonus, 100 * ScoreUnit)

\* the tier_scores table of RevenueRanking
TierScore(tier) ==
    CASE tier = "enterprise" -> 100
      [] tier = "premium" -> 70
      [] tier = "pro" -> 40
      [] OTHER -> 0

\* RevenueRanking.score
RevenueScore(agent) ==
    TierScore(agent.tier) * ScoreUnit + agent.success_rate * 10 * (ScoreUnit \div RateUnit)

\* HybridRanking._skill_match_score; skill_tags is None or a list
SkillMatchScore(agent, skill_tags) ==
    IF ~Truthy(skill_tags) THEN 50 * ScoreUnit
    ELSE LET agent_tags == Range(agent.skills_tags)
             query_tags == Range(skill_tags.list)
             union == agent_tags \cup query_tags
         IN IF Cardinality(union) = 0 THEN 0
            ELSE (Cardinality(agent_tags \cap query_tags) * 100 * ScoreUnit)
                     \div Cardinality(union)

\* HybridRanking._freshness_score
FreshnessScore(agent) == 50 * ScoreUnit

\* HybridRanking.score, times 20, with weight 0.50 for the skill match
HybridScoreHeavySkill(agent, query, skill_tags) ==
    SkillMatchScore(agent, skill_tags) * 10
    + PerformanceScore(agent) * 5
    + SemanticScore(agent, query) * 4
    + RevenueScore(agent) * 2
    + FreshnessScore(agent)

\* HybridRanking.score, times 20: the weights 0.40, 0.25, 0.20, 0.10, 0.05
\* are 8, 5, 4, 2 and 1 twentieths
HybridScore20(agent, query, skill_tags) ==
    SkillMatchScore(agent, skill_tags) * 8
    + PerformanceScore(agent) * 5
    + SemanticScore(agent, query) * 4
    + RevenueScore(agent) * 2
    + FreshnessScore(agent)

\* ranker.score for the strategy named; an unknown name is the hybrid strategy
StrategyScore(strategy, agent, query, skill_tags) ==
    CASE strategy = "performance" -> PerformanceScore(agent) * 20
      [] strategy = "semantic" -> SemanticScore(agent, query) * 20
      [] strategy = "revenue" -> RevenueScore(agent) * 20
      [] OTHER -> HybridScore20(agent, query, skill_tags)

RECURSIVE SortDescendingTiesLast(_)
\* a descending sort that moves an element behind the later elements it ties with
SortDescendingTiesLast(scored) ==
    IF Len(scored) <= 1 THEN scored
    ELSE LET rest == SortDescendingTiesLast(Tail(scored))
             x == Head(scored)
             n == Cardinality({i \in 1..Len(rest) : rest[i].score >= x.score})
         IN SubSeq(rest, 1, n) \o <<x>> \o SubSeq(rest, n + 1, Len(rest))

RECURSIVE SortDescending(_)
\* list.sort(key=score, reverse=True): stable, equal scores keep their order
SortDescending(scored) ==
    IF Len(scored) <= 1 THEN scored
    ELSE LET rest == SortDescending(Tail(scored))
             x == Head(scored)
             n == Cardinality({i \in 1..Len(rest) : rest[i].score > x.score})
         IN SubSeq(rest, 1, n) \o <<x>> \o SubSeq(rest, n + 1, Len(rest))

\* rank_agents(agents, query, skill_tags, strategy)
rank_agents(agents, query, skill_tags, strategy) ==
    LET scored_agents == [i \in 1..Len(agents) |->
            [agent |-> agents[i],
             score |-> StrategyScore(strategy, agents[i], query, skill_tags)]]
        sorted == SortDescending(scored_agents)
    IN [i \in 1..Len(sorted) |-> sorted[i].agent]

\* ---------------------------------------------------------------- orchestrator
\* the upper limit of OrchestrateRequest.max_agents (le=10) and its default
MaxAgentsLimit == 10

DefaultMaxAgents == 3

\* orchestrate requests the model serves in one run
MaxRequests == 1

\* request slots: the orchestrate calls that can be in flight together
NumSlots == 1

Slots == 1..NumSlots

\* list[:n] of Python, for negative n too
PySlice(s, n) == IF n >= 0 THEN Take(s, n) ELSE Take(s, Max(0, Len(s) + n))

\* the request bodies clients send
Queries == {<<"weather", "paris">>, <<"hello">>}

SkillTagChoices == {None, Some(<<"weather">>), Some(<<"hotel">>)}

PreferChoices ==
    {None, Some(<<"acme/travel", "ghost">>)}
    \cup {Some(<<AgentCards[i].id>>) : i \in 1..3}

MaxAgentsChoices == ((0 - 1)..DefaultMaxAgents) \cup {MaxAgentsLimit + 1}

Requests ==
    [query : Queries, skill_tags : SkillTagChoices,
     prefer_agent_ids : PreferChoices, max_agents : MaxAgentsChoices]

\* pydantic's check of OrchestrateRequest: max_agents: int = Field(default=3, le=10)
ValidRequest(request) == request.max_agents <= MaxAgentsLimit

\* Discover without the filter by skill tags
DiscoverAll(dir, request) == SelectSeq(dir, LAMBDA a : a.is_active)

\* step 1: the active agents, kept when a requested tag is among their tags
Discover(dir, request) ==
    LET all_agents == SelectSeq(dir, LAMBDA a : a.is_active) IN
    IF Truthy(request.skill_tags)
    THEN SelectSeq(all_agents, LAMBDA a :
            \E tag \in Range(request.skill_tags.list) : tag \in Range(a.skills_tags))
    ELSE all_agents

\* step 3: the top max_agents of the ranking, preferred agents first
SelectAgents(matching_agents, ranked_agents, request) ==
    LET selected_agents == PySlice(ranked_agents, request.max_agents) IN
    IF Truthy(request.prefer_agent_ids)
    THEN LET preferred == SelectSeq(matching_agents, LAMBDA a :
                              a.agent_id \in Range(request.prefer_agent_ids.list))
         IN PySlice(preferred \o SelectSeq(selected_agents, LAMBDA a :
                                      a \notin Range(preferred)),
                    request.max_agents)
    ELSE selected_agents

\* how a call to an agent can end: a 2xx JSON answer after latency_ms (0 when
\* the two clock readings are equal), or an exception (timeout, non-2xx status,
\* connection error)
CallOutcomes ==
    {[kind |-> "ok", latency_ms |-> 1000 * LatencyUnit],
     [kind |-> "ok", latency_ms |-> 0],
     [kind |-> "timeout", latency_ms |-> 0],
     [kind |-> "http_error", latency_ms |-> 0]}

Pending == [agent_id |-> "", agent_name |-> <<>>, status |-> "pending",
            latency_ms |-> 0, error |-> ""]

\* call_agent_http: the standardized result of a call that ended with outcome
call_agent_http(agent, outcome) ==
    IF outcome.kind = "ok"
    THEN [agent_id |-> agent.agent_id, agent_name |-> agent.name, status |-> "success",
          latency_ms |-> outcome.latency_ms, error |-> ""]
    ELSE [agent_id |-> agent.agent_id, agent_name |-> agent.name, status |-> "error",
          latency_ms |-> 0, error |-> outcome.kind]

\* step 5 counting successful calls only
UpdateMetricsSuccessOnly(agent, result) ==
    IF result.status # "success" THEN agent
    ELSE [agent EXCEPT
            !.total_calls = agent.total_calls + 1,
            !.success_rate = (agent.success_rate * 9 + RateUnit) \div 10,
            !.avg_latency_ms = IF result.latency_ms > 0
                               THEN (agent.avg_latency_ms * 9 + result.latency_ms) \div 10
                               ELSE agent.avg_latency_ms]

\* step 5 without the test latency_ms > 0
UpdateMetricsLatencyAlways(agent, result) ==
    LET success == IF result.status = "success" THEN RateUnit ELSE 0 IN
    [agent EXCEPT
        !.total_calls = agent.total_calls + 1,
        !.success_rate = (agent.success_rate * 9 + success) \div 10,
        !.avg_latency_ms = (agent.avg_latency_ms * 9 + result.latency_ms) \div 10]

\* step 5 with the two weights of the success rate exchanged
UpdateMetricsSwappedWeights(agent, result) ==
    LET success == IF result.status = "success" THEN RateUnit ELSE 0 IN
    [agent EXCEPT
        !.total_calls = agent.total_calls + 1,
        !.success_rate = (agent.success_rate + success * 9) \div 10,
        !.avg_latency_ms = IF result.latency_ms > 0
                           THEN (agent.avg_latency_ms * 9 + result.latency_ms) \div 10
                           ELSE agent.avg_latency_ms]

\* step 5 for one selected agent (as loaded by this request) and its result
UpdateMetrics(agent, result) ==
    LET success == IF result.status = "success" THEN RateUnit ELSE 0 IN
    [agent EXCEPT
        !.total_calls = agent.total_calls + 1,
        !.success_rate = (agent.success_rate * 9 + success) \div 10,
        !.avg_latency_ms = IF result.latency_ms > 0
                           THEN (agent.avg_latency_ms * 9 + result.latency_ms) \div 10
                           ELSE agent.avg_latency_ms]

\* the directory after session.commit() of the metric updates: the session
\* writes, for each agent object the request loaded, the columns whose value
\* differs from the loaded one, computed from the loaded values
CommitMetrics(dir, selected_agents, results) ==
    [i \in 1..Len(dir) |->
        IF \E j \in 1..Len(selected_agents) : selected_agents[j].agent_id = dir[i].agent_id
        THEN LET j == CHOOSE j \in 1..Len(selected_agents) :
                          selected_agents[j].agent_id = dir[i].agent_id
                 loaded == selected_agents[j]
                 updated == UpdateMetrics(loaded, results[j])
             IN [dir[i] EXCEPT
                    !.total_calls = IF updated.total_calls # loaded.total_calls
                                    THEN updated.total_calls ELSE @,
                    !.success_rate = IF updated.success_rate # loaded.success_rate
                                     THEN updated.success_rate ELSE @,
                    !.avg_latency_ms = IF updated.avg_latency_ms # loaded.avg_latency_ms
                                       THEN updated.avg_latency_ms ELSE @]
        ELSE dir[i]]

\* step 6 with success set when any call succeeded
LogEntryAnySuccess(request, selected_agents, results) ==
    [query |-> request.query, skill_tags |-> request.skill_tags,
     selected_agents |-> [i \in 1..Len(selected_agents) |-> selected_agents[i].agent_id],
     results |-> results,
     success |-> \E i \in 1..Len(results) : results[i].status = "success"]

\* step 6: the OrchestrationLog row
LogEntry(request, selected_agents, results) ==
    [query |-> request.query, skill_tags |-> request.skill_tags,
     selected_agents |-> [i \in 1..Len(selected_agents) |-> selected_agents[i].agent_id],
     results |-> results,
     success |-> \A i \in 1..Len(results) : results[i].status = "success"]

\* _generate_summary: the fixed message, or how many agents responded
Summary(results) ==
    LET successful == SelectSeq(results, LAMBDA r : r.status = "success") IN
    IF Len(successful) = 0 THEN [responded |-> 0, of |-> 0]
    ELSE [responded |-> Len(successful), of |-> Len(results)]

\* step 7 raises KeyError when a selected agent's card has a skill without "name"
ResponseRaises(selected_agents) ==
    \E i \in 1..Len(selected_agents) :
        \E k \in 1..Len(selected_agents[i].skills) : ~selected_agents[i].skills[k].hasName

\* how the two session.commit() calls of a request can end: both succeed, the
\* commit of the metric updates raises, or the commit of the log row raises
CommitOutcomes == {"ok", "metrics_failed", "log_failed"}

Idle ==
    [pc |-> "idle", request |-> [query |-> <<>>, skill_tags |-> None,
                                 prefer_agent_ids |-> None, max_agents |-> DefaultMaxAgents],
     matching |-> <<>>, ranked |-> <<>>, selected |-> <<>>, results |-> <<>>,
     persist |-> "none",
     status |-> 0, response |-> <<>>, summary |-> [responded |-> 0, of |-> 0]]

Init ==
    /\ generated = {}
    /\ lastSign = NoSignCall
    /\ lastVerify = NoVerifyCall
    /\ directory = <<>>
    /\ req = [r \in Slots |-> Idle]
    /\ logs = <<>>
    /\ served = 0
    /\ rank = NoRankCall
    /\ relay = NoRelayCall

\* POST /api/registry/agents
RegisterAgent ==
    /\ \E i \in 1..Len(AgentCards) : directory' = register_agent(directory, AgentCards[i])
    /\ UNCHANGED <<req, logs, served, idVars, rank, relay>>

\* orchestrate(request) in slot r, up to the await of the agent calls: the
\* request is validated, agents are discovered, ranked and selected, and the
\* calls are started
OrchestrateBegin(r, request) ==
    /\ LET matching_agents == Discover(directory, request)
           ranked_agents == rank_agents(matching_agents, request.query,
                                        request.skill_tags, "hybrid")
           selected_agents == SelectAgents(matching_agents, ranked_agents, request)
       IN req' = [req EXCEPT ![r] =
            IF ~ValidRequest(request)
            THEN [Idle EXCEPT !.pc = "done", !.request = request, !.status = 422]
            ELSE IF Len(matching_agents) = 0
            THEN [Idle EXCEPT !.pc = "done", !.request = request, !.status = 404]
            ELSE [Idle EXCEPT !.pc = "dispatch", !.request = request,
                              !.matching = matching_agents, !.ranked = ranked_agents,
                              !.selected = selected_agents,
                              !.results = [i \in 1..Len(selected_agents) |-> Pending]]]
    /\ served' = served + 1
    /\ UNCHANGED <<directory, logs, idVars, rank, relay>>

\* results collected in the order the calls end
CallEndsInCompletionOrder(r, i, outcome) ==
    /\ req[r].pc = "dispatch"
    /\ req[r].results[i].status = "pending"
    /\ LET k == CHOOSE k \in 1..Len(req[r].results) :
                   /\ req[r].results[k].status = "pending"
                   /\ \A m \in 1..(k - 1) : req[r].results[m].status # "pending"
       IN req' = [req EXCEPT ![r].results[k] =
                       call_agent_http(req[r].selected[i], outcome)]
    /\ UNCHANGED <<directory, logs, served, idVars, rank, relay>>

\* the i-th agent call of the request in slot r ends with outcome
CallEnds(r, i, outcome) ==
    /\ req[r].pc = "dispatch"
    /\ req[r].results[i].status = "pending"
    /\ req' = [req EXCEPT ![r].results[i] =
                    call_agent_http(req[r].selected[i], outcome)]
    /\ UNCHANGED <<directory, logs, served, idVars, rank, relay>>

\* orchestrate going on as soon as one call has ended
OrchestrateEndFirstCompleted(r, persist) ==
    /\ req[r].pc = "dispatch"
    /\ \E i \in 1..Len(req[r].results) : req[r].results[i].status # "pending"
    /\ directory' = IF persist = "metrics_failed" THEN directory
                    ELSE CommitMetrics(directory, req[r].selected, req[r].results)
    /\ logs' = IF persist = "ok"
               THEN Append(logs, LogEntry(req[r].request, req[r].selected, req[r].results))
               ELSE logs
    /\ req' = [req EXCEPT ![r] =
            IF persist # "ok" \/ ResponseRaises(req[r].selected)
            THEN [@ EXCEPT !.pc = "done", !.persist = persist, !.status = 500]
            ELSE [@ EXCEPT !.pc = "done", !.persist = persist, !.status = 200,
                           !.response = req[r].results,
                           !.summary = Summary(req[r].results)]]
    /\ UNCHANGED <<served, idVars, rank, relay>>

\* orchestrate after asyncio.gather returned: metrics and their commit, the
\* log row and its commit, the response.  An exception of a commit or of the
\* construction of the response leaves the handler: the client gets a 500.
OrchestrateEnd(r, persist) ==
    /\ req[r].pc = "dispatch"
    /\ \A i \in 1..Len(req[r].results) : req[r].results[i].status # "pending"
    /\ directory' = IF persist = "metrics_failed" THEN directory
                    ELSE CommitMetrics(directory, req[r].selected, req[r].results)
    /\ logs' = IF persist = "ok"
               THEN Append(logs, LogEntry(req[r].request, req[r].selected, req[r].results))
               ELSE logs
    /\ req' = [req EXCEPT ![r] =
            IF persist # "ok" \/ ResponseRaises(req[r].selected)
            THEN [@ EXCEPT !.pc = "done", !.persist = persist, !.status = 500]
            ELSE [@ EXCEPT !.pc = "done", !.persist = persist, !.status = 200,
                           !.response = req[r].results,
                           !.summary = Summary(req[r].results)]]
    /\ UNCHANGED <<served, idVars, rank, relay>>

\* POST /api/orchestrator/orchestrate
OrchestrateStart(r) ==
    /\ req[r].pc \in {"idle", "done"}
    /\ served < MaxRequests
    /\ \E request \in Requests : OrchestrateBegin(r, request)

\* one of the concurrent agent calls of a request ends
CallReturns(r) ==
    /\ req[r].pc = "dispatch"
    /\ \E i \in 1..Len(req[r].selected), outcome \in CallOutcomes : CallEnds(r, i, outcome)

\* asyncio.gather has returned and the handler runs to its end
OrchestrateFinish(r) ==
    /\ req[r].pc = "dispatch"
    /\ \E persist \in CommitOutcomes : OrchestrateEnd(r, persist)

Next ==
    \/ RegisterAgent
    \/ \E r \in Slots : OrchestrateStart(r)
    \/ \E r \in Slots : CallReturns(r)
    \/ \E r \in Slots : OrchestrateFinish(r)

Spec == Init /\ [][Next]_vars

\* ---------------------------------------------------------------- orchestrator: claims
\* request slot r got past validation and Discover: agents were selected
Dispatched(r) == req[r].pc = "dispatch" \/ (req[r].pc = "done" /\ req[r].status \in {200, 500})

Ids(agents) == {agents[i].agent_id : i \in 1..Len(agents)}

CountStatus(results, status) ==
    Cardinality({i \in 1..Len(results) : results[i].status = status})

\* C7: partial failure isolation.  When every call of a request has ended and
\* exactly one of the N calls failed, orchestrate returns N per-agent results:
\* one with status 'error' and N-1 with status 'success', each carrying its
\* own agent's id.
C7_PartialFailureIsolation ==
    \A r \in Slots :
        ( /\ req[r].pc = "done" /\ req[r].status \in {200, 500}
          /\ req[r].persist = "ok"
          /\ Len(req[r].selected) >= 1
          /\ CountStatus(req[r].results, "error") = 1 )
        => /\ req[r].status = 200
           /\ Len(req[r].response) = Len(req[r].selected)
           /\ CountStatus(req[r].response, "error") = 1
           /\ CountStatus(req[r].response, "success") = Len(req[r].selected) - 1
           /\ \A i \in 1..Len(req[r].response) :
                 req[r].response[i].agent_id = req[r].selected[i].agent_id

\* C8: selection respects preference.  When prefer_agent_ids is [X] and X is
\* among the filtered candidates, X is the first selected agent, for every
\* max_agents the request validation accepts.
C8_PreferredFirst ==
    \A r \in Slots :
        ( /\ Dispatched(r)
          /\ ~req[r].request.prefer_agent_ids.none
          /\ Len(req[r].request.prefer_agent_ids.list) = 1
          /\ req[r].request.prefer_agent_ids.list[1] \in Ids(req[r].matching) )
        => /\ Len(req[r].selected) >= 1
           /\ req[r].selected[1].agent_id = req[r].request.prefer_agent_ids.list[1]

\* the agent is one the request prefers
IsPreferred(r, agent) ==
    Truthy(req[r].request.prefer_agent_ids)
    /\ agent.agent_id \in Range(req[r].request.prefer_agent_ids.list)

\* the position of an agent in the ranking of request r
RankOf(r, agent) == CHOOSE i \in 1..Len(req[r].ranked) : req[r].ranked[i] = agent

\* C9: the selected list holds only filtered candidates, has no duplicates,
\* places every preferred agent before every other agent, keeps the other
\* agents in ranked order, and has at most max_agents elements.
C9_SelectionShape ==
    \A r \in Slots :
        Dispatched(r) =>
            LET sel == req[r].selected IN
            /\ Range(sel) \subseteq Range(req[r].matching)
            /\ \A i, j \in 1..Len(sel) : i # j => sel[i].agent_id # sel[j].agent_id
            /\ \A i, j \in 1..Len(sel) :
                  (IsPreferred(r, sel[j]) /\ ~IsPreferred(r, sel[i])) => j < i
            /\ \A i, j \in 1..Len(sel) :
                  (i < j /\ ~IsPreferred(r, sel[i]) /\ ~IsPreferred(r, sel[j]))
                      => RankOf(r, sel[i]) < RankOf(r, sel[j])
            /\ Len(sel) <= req[r].request.max_agents

\* C10: for every request that passes validation, the number of agents
\* selected and dispatched is at most max_agents, and at most 10.
C10_AtMostMaxAgents ==
    \A r \in Slots :
        Dispatched(r) =>
            /\ Len(req[r].selected) <= req[r].request.max_agents
            /\ Len(req[r].selected) <= MaxAgentsLimit

\* C15: a failure to persist the metric update or the log entry does not fail
\* the request: the client gets the response it would get had the write
\* succeeded (here for requests that called at least one agent and whose
\* response can be built: status 200 with the per-agent results and the
\* summary).
C15_PersistenceFailureSwallowed ==
    \A r \in Slots :
        ( /\ req[r].pc = "done"
          /\ req[r].persist \in {"metrics_failed", "log_failed"}
          /\ Len(req[r].selected) >= 1
          /\ ~ResponseRaises(req[r].selected) )
        => /\ req[r].status = 200
           /\ req[r].response = req[r].results
           /\ req[r].summary = Summary(req[r].results)

\* C16: once Discover has found a candidate, whatever the outcomes of the
\* agent calls and whatever the records of the registered agents hold, the
\* request completes (its writes committed) with status 200, one result per
\* selected agent and the summary.
C16_AlwaysCompletes ==
    \A r \in Slots :
        ( /\ req[r].pc = "done"
          /\ req[r].status \notin {404, 422}
          /\ req[r].persist = "ok" )
        => /\ req[r].status = 200
           /\ Len(req[r].response) = Len(req[r].selected)
           /\ req[r].summary = Summary(req[r].results)

\* ---------------------------------------------------------------- orchestrate requests one after another
\* orchestrate requests served one after another in a run
MaxRounds == 3

\* the requests of these runs: a tag filter, no preference
SerialRequests ==
    [query : {<<"hello">>}, skill_tags : {Some(<<"weather">>), Some(<<"hotel">>)},
     prefer_agent_ids : {None}, max_agents : {1, 2}]

\* the calls of these runs answer after a second or time out
SerialOutcomes ==
    {o \in CallOutcomes : (o.kind = "ok" /\ o.latency_ms > 0) \/ o.kind = "timeout"}

SerialInit ==
    /\ generated = {}
    /\ lastSign = NoSignCall
    /\ lastVerify = NoVerifyCall
    /\ directory = <<>>
    /\ req = [r \in Slots |-> Idle]
    /\ logs = <<>>
    /\ served = 0
    /\ rank = NoRankCall
    /\ relay = NoRelayCall

\* agents register before the first request
SerialRegister ==
    /\ served = 0
    /\ RegisterAgent

\* a client sends a request when no other request is in flight
SerialStart ==
    /\ \A r \in Slots : req[r].pc # "dispatch"
    /\ served < MaxRounds
    /\ \E request \in SerialRequests : OrchestrateBegin(1, request)

SerialCallReturns ==
    /\ req[1].pc = "dispatch"
    /\ \E i \in 1..Len(req[1].selected), outcome \in SerialOutcomes : CallEnds(1, i, outcome)

\* the handler runs to its end, both commits succeed
SerialFinish ==
    /\ req[1].pc = "dispatch"
    /\ OrchestrateEnd(1, "ok")

SerialNext ==
    \/ SerialRegister
    \/ SerialStart
    \/ SerialCallReturns
    \/ SerialFinish

SpecSerial == SerialInit /\ [][SerialNext]_vars

\* ---------------------------------------------------------------- serial requests: claims
\* no active agent of dir matches the skill tags of the request
NoCandidate(dir, request) ==
    ~\E i \in 1..Len(dir) :
        /\ dir[i].is_active
        /\ Truthy(request.skill_tags) =>
              \E tag \in Range(request.skill_tags.list) : tag \in Range(dir[i].skills_tags)

\* this step is the arrival of a request in slot r
StartStep(r) == req[r].pc \in {"idle", "done"} /\ req'[r] # req[r]

\* this step is the end of the handler of the request in slot r
FinishStep(r) == req[r].pc = "dispatch" /\ req'[r].pc = "done"

\* the position of the agent with this id among the agents request r selected
SelectedAt(r, agent_id) ==
    CHOOSE j \in 1..Len(req[r].selected) : req[r].selected[j].agent_id = agent_id

\* C11: Discover is terminal when empty.  A valid request that arrives when no
\* active agent matches its skill tags (or no agent is registered) ends with
\* 404, and in that request no agent is selected or called, no row of the
\* directory changes and no log entry is written.
C11_DiscoverTerminal ==
    [][\A r \in Slots :
          ( /\ StartStep(r)
            /\ ValidRequest(req'[r].request)
            /\ NoCandidate(directory, req'[r].request) )
          => /\ req'[r].pc = "done"
             /\ req'[r].status = 404
             /\ req'[r].selected = <<>>
             /\ req'[r].results = <<>>
             /\ directory' = directory
             /\ logs' = logs]_vars

\* a request with a tag filter found no candidate among registered agents
C11_Witness ==
    /\ req[1].pc = "done"
    /\ req[1].status = 404
    /\ Len(directory) >= 1
    /\ Truthy(req[1].request.skill_tags)

\* C12: when a request ends and its writes are committed, every selected
\* agent, whether its call succeeded or failed, has total_calls one higher and
\* success_rate = old*0.9 + sample*0.1 (sample 1.0 for status 'success', else
\* 0.0); every other agent keeps all its metrics.
C12_CallsAndSuccessRate ==
    [][\A r \in Slots :
          (FinishStep(r) /\ req'[r].persist = "ok")
          => /\ Len(directory') = Len(directory)
             /\ \A i \in 1..Len(directory) :
                   IF directory[i].agent_id \in Ids(req[r].selected)
                   THEN LET result == req[r].results[SelectedAt(r, directory[i].agent_id)]
                            sample == IF result.status = "success" THEN RateUnit ELSE 0
                        IN /\ result.status \in {"success", "error"}
                           /\ directory'[i].total_calls = directory[i].total_calls + 1
                           /\ directory'[i].success_rate * 10
                                  = directory[i].success_rate * 9 + sample
                   ELSE directory'[i] = directory[i]]_vars

\* an agent called twice, failing then succeeding, next to an agent never called
C12_Witness ==
    /\ req[1].pc = "done"
    /\ \E i, j \in 1..Len(directory) :
          /\ directory[i].total_calls = 2
          /\ directory[i].success_rate * 100 = 91 * RateUnit
          /\ directory[j].total_calls = 0
          /\ directory[j].success_rate = RateUnit

\* C13 as claimed: when a request ends, avg_latency_ms of every selected agent
\* becomes old*0.9 + sample*0.1 with the latency_ms of its result as sample,
\* whether the call succeeded or failed.
C13_LatencyAlwaysUpdated ==
    [][\A r \in Slots :
          (FinishStep(r) /\ req'[r].persist = "ok")
          => \A i \in 1..Len(directory) :
                directory[i].agent_id \in Ids(req[r].selected)
                => LET result == req[r].results[SelectedAt(r, directory[i].agent_id)]
                   IN directory'[i].avg_latency_ms * 10
                          = directory[i].avg_latency_ms * 9 + result.latency_ms]_vars

\* C13 amended: when a request ends, avg_latency_ms of a selected agent whose
\* result has latency_ms > 0 becomes old*0.9 + latency_ms*0.1; that of a
\* selected agent whose result has latency_ms 0 (every failed call) keeps its
\* old value.
C13_LatencyUpdatedWhenMeasured ==
    [][\A r \in Slots :
          (FinishStep(r) /\ req'[r].persist = "ok")
          => \A i \in 1..Len(directory) :
                directory[i].agent_id \in Ids(req[r].selected)
                => LET result == req[r].results[SelectedAt(r, directory[i].agent_id)]
                   IN /\ result.status = "error" => result.latency_ms = 0
                      /\ IF result.latency_ms > 0
                         THEN directory'[i].avg_latency_ms * 10
                                  = directory[i].avg_latency_ms * 9 + result.latency_ms
                         ELSE directory'[i].avg_latency_ms
                                  = directory[i].avg_latency_ms]_vars

\* an agent answered once in 1000 ms and then failed: its average is still 100 ms
C13_Witness ==
    /\ req[1].pc = "done"
    /\ \E i \in 1..Len(directory) :
          /\ directory[i].total_calls = 2
          /\ directory[i].success_rate * 10 = 9 * RateUnit
          /\ directory[i].avg_latency_ms = 100 * LatencyUnit

\* C14: EMA convergence.  In every request that selects an agent, a success
\* moves success_rate to old*0.9 + 0.1: it does not decrease, rises while below
\* 1.0, and its distance to 1.0 shrinks to 0.9 of what it was; a failure moves
\* it to old*0.9: it does not increase, falls while above 0.0, and its distance
\* to 0.0 shrinks to 0.9 of what it was.  So a run of successes (failures)
\* brings it within any distance of 1.0 (0.0).
C14_EmaConvergence ==
    [][\A r \in Slots :
          (FinishStep(r) /\ req'[r].persist = "ok")
          => \A i \in 1..Len(directory) :
                directory[i].agent_id \in Ids(req[r].selected)
                => LET result == req[r].results[SelectedAt(r, directory[i].agent_id)]
                       old == directory[i].success_rate
                       new == directory'[i].success_rate
                   IN IF result.status = "success"
                      THEN /\ new >= old
                           /\ old < RateUnit => new > old
                           /\ (RateUnit - new) * 10 = (RateUnit - old) * 9
                      ELSE /\ new <= old
                           /\ old > 0 => new < old
                           /\ new * 10 = old * 9]_vars

\* an agent failed twice in a row and then succeeded: 1.0, 0.9, 0.81, 0.829
C14_Witness ==
    /\ req[1].pc = "done"
    /\ \E i \in 1..Len(directory) :
          /\ directory[i].total_calls = 3
          /\ directory[i].success_rate * 1000 = 829 * RateUnit
          /\ req[1].results[SelectedAt(1, directory[i].agent_id)].status = "success"

\* the metric columns of a directory row
Metrics(agent) == <<agent.total_calls, agent.success_rate, agent.avg_latency_ms>>

\* some call of the request in slot r has not ended
CallsInFlight(r) ==
    /\ req[r].pc = "dispatch"
    /\ \E i \in 1..Len(req[r].results) : req[r].results[i].status = "pending"

\* C23: join barrier.  The handler of a request goes on to the metric updates
\* and the log row only when every dispatched call has ended.  While a call is
\* in flight no metric of a selected agent changes and no log row is written;
\* a call that ends leaves the wait in place and the other calls as they
\* were, neither cancelled nor answered for them.
C23_JoinBarrier ==
    [][\A r \in Slots :
          /\ FinishStep(r)
                => \A i \in 1..Len(req[r].results) : req[r].results[i].status # "pending"
          /\ CallsInFlight(r)
                => /\ logs' = logs
                   /\ Len(directory') = Len(directory)
                   /\ \A i \in 1..Len(directory) :
                         Metrics(directory'[i]) = Metrics(directory[i])
                   /\ req'[r].pc = "dispatch"
                   /\ \E i \in 1..Len(req[r].results) :
                         /\ req[r].results[i].status = "pending"
                         /\ req'[r].results[i].status \in {"success", "error"}
                         /\ \A j \in 1..Len(req[r].results) :
                               j # i => req'[r].results[j] = req[r].results[j]]_vars

\* of two dispatched calls the second has ended, the first is still awaited,
\* and nothing has been written
C23_Witness ==
    /\ req[1].pc = "dispatch"
    /\ Len(req[1].results) = 2
    /\ req[1].results[1].status = "pending"
    /\ req[1].results[2].status = "error"
    /\ logs = <<>>
    /\ \A i \in 1..Len(directory) : directory[i].total_calls = 0

\* C24: every request that gets past Discover and whose writes are committed
\* appends exactly one OrchestrationLog row: selected_agents holds the ids of
\* the dispatched agents in dispatch order, and success is true exactly when
\* every result has status 'success'.  No other step writes to the log, and
\* the rows already there are neither changed nor removed.
C24_OneLogPerRequest ==
    [][/\ \A r \in Slots :
            (FinishStep(r) /\ req'[r].persist = "ok")
            => /\ Len(logs') = Len(logs) + 1
               /\ LET entry == logs'[Len(logs')] IN
                  /\ entry.selected_agents
                         = [i \in 1..Len(req[r].selected) |-> req[r].selected[i].agent_id]
                  /\ entry.success
                         <=> \A i \in 1..Len(req[r].results) :
                                 req[r].results[i].status = "success"
       /\ Len(logs') >= Len(logs)
       /\ \A n \in 1..Len(logs) : logs'[n] = logs[n]
       /\ logs' # logs => \E r \in Slots : FinishStep(r)]_vars

\* two rows: a request with two agents of which one failed, logged as not
\* successful, then a request that succeeded
C24_Witness ==
    /\ Len(logs) = 2
    /\ Len(logs[1].selected_agents) = 2
    /\ logs[1].selected_agents[1] # logs[1].selected_agents[2]
    /\ logs[1].results[1].status = "success"
    /\ logs[1].results[2].status = "error"
    /\ ~logs[1].success
    /\ logs[2].success

\* C30: result attribution.  A call that ends fills the position of the agent
\* it was sent to, with that agent's agent_id and agent_name, whichever call
\* ends first; the results are returned and logged in the order of the
\* selected agents; the metric change computed from the i-th result goes to
\* the i-th selected agent and the other agents keep their metrics.
C30_ResultAttribution ==
    [][\A r \in Slots :
          /\ req[r].pc = "dispatch"
                => \A i \in 1..Len(req[r].results) :
                      req'[r].results[i] # req[r].results[i]
                      => /\ req'[r].results[i].agent_id = req[r].selected[i].agent_id
                         /\ req'[r].results[i].agent_name = req[r].selected[i].name
          /\ (FinishStep(r) /\ req'[r].persist = "ok")
                => /\ logs'[Len(logs')].results = req[r].results
                   /\ req'[r].status = 200 => req'[r].response = req[r].results
                   /\ \A i \in 1..Len(req[r].results) :
                         req[r].results[i].agent_id = req[r].selected[i].agent_id
                   /\ \A n \in 1..Len(directory) :
                         IF directory[n].agent_id \in Ids(req[r].selected)
                         THEN LET i == SelectedAt(r, directory[n].agent_id) IN
                              Metrics(directory'[n])
                                  = Metrics(UpdateMetrics(directory[n], req[r].results[i]))
                         ELSE Metrics(directory'[n]) = Metrics(directory[n])]_vars

\* a request answered with two results: the first agent failed and the second
\* answered, and each agent's metrics show its own outcome
C30_Witness ==
    /\ req[1].pc = "done"
    /\ req[1].status = 200
    /\ Len(req[1].response) = 2
    /\ req[1].response[1].status = "error"
    /\ req[1].response[2].status = "success"
    /\ \E m, n \in 1..Len(directory) :
          /\ directory[m].agent_id = req[1].response[1].agent_id
          /\ directory[n].agent_id = req[1].response[2].agent_id
          /\ directory[m].total_calls = 1
          /\ directory[m].success_rate * 10 = 9 * RateUnit
          /\ directory[m].avg_latency_ms = 0
          /\ directory[n].total_calls = 1
          /\ directory[n].success_rate = RateUnit
          /\ directory[n].avg_latency_ms = 100 * LatencyUnit

\* ---------------------------------------------------------------- orchestrate requests that overlap
\* requests that can be in flight at the same time
NumOverlapping == 2

\* requests in a run
MaxOverlapRequests == 3

\* the slots of these runs
OverlapSlots == 1..NumOverlapping

\* the requests of these runs: the weather tag, no preference
OverlapRequests ==
    [query : {<<"hello">>}, skill_tags : {Some(<<"weather">>)},
     prefer_agent_ids : {None}, max_agents : {1, 2}]

OverlapInit ==
    /\ generated = {}
    /\ lastSign = NoSignCall
    /\ lastVerify = NoVerifyCall
    /\ directory = <<>>
    /\ req = [r \in OverlapSlots |-> Idle]
    /\ logs = <<>>
    /\ served = 0
    /\ rank = NoRankCall
    /\ relay = NoRelayCall

\* agents register before the first request
OverlapRegister ==
    /\ served = 0
    /\ RegisterAgent

\* a request arrives, whether or not another one is waiting for its calls:
\* the handler awaits the calls, and the event loop serves other requests
\* meanwhile, each with a database session of its own
OverlapStart(r) ==
    /\ req[r].pc \in {"idle", "done"}
    /\ served < MaxOverlapRequests
    /\ \E request \in OverlapRequests : OrchestrateBegin(r, request)

OverlapCallReturns(r) ==
    /\ req[r].pc = "dispatch"
    /\ \E i \in 1..Len(req[r].selected), outcome \in SerialOutcomes : CallEnds(r, i, outcome)

\* a handler runs to its end, both commits succeed
OverlapFinish(r) ==
    /\ req[r].pc = "dispatch"
    /\ OrchestrateEnd(r, "ok")

OverlapNext ==
    \/ OverlapRegister
    \/ \E r \in OverlapSlots : OverlapStart(r)
    \/ \E r \in OverlapSlots : OverlapCallReturns(r)
    \/ \E r \in OverlapSlots : OverlapFinish(r)

SpecOverlap == OverlapInit /\ [][OverlapNext]_vars

\* ---------------------------------------------------------------- overlapping requests: claims
\* the completed requests that dispatched to this agent: one log row each
CompletedFor(agent_id) ==
    Cardinality({n \in 1..Len(logs) :
                    \E i \in 1..Len(logs[n].selected_agents) :
                        logs[n].selected_agents[i] = agent_id})

\* C26: no metric update is lost when requests that selected the same agent
\* overlap: an agent registered with total_calls 0 has total_calls = k after
\* k completed requests that dispatched to it.
C26_NoLostUpdate ==
    \A i \in 1..Len(directory) :
        directory[i].total_calls = CompletedFor(directory[i].agent_id)

\* C27: after any sequence of registrations and orchestrations every agent
\* has success_rate in [0, 1], avg_latency_ms >= 0 and total_calls >= 0, and
\* no step makes the total_calls of an agent smaller.
C27_MetricsInRange ==
    [][/\ \A i \in 1..Len(directory') :
            /\ directory'[i].success_rate >= 0
            /\ directory'[i].success_rate <= RateUnit
            /\ directory'[i].avg_latency_ms >= 0
            /\ directory'[i].total_calls >= 0
       /\ \A i \in 1..Len(directory) :
            /\ i <= Len(directory')
            /\ directory'[i].agent_id = directory[i].agent_id
            /\ directory'[i].total_calls >= directory[i].total_calls]_vars

\* ---------------------------------------------------------------- rank_agents on its own
\* longest agent list handed to rank_agents
MaxRanked == 3

\* a row of registered_agents with these values
AgentRow(agent_id, name, description, tags, tier, total_calls, success_rate, avg_latency_ms) ==
    [agent_id |-> agent_id, name |-> name, description |-> description,
     url |-> "http://agent", skills |-> <<[hasName |-> TRUE, tags |-> tags]>>,
     tier |-> tier, skills_tags |-> tags, is_active |-> TRUE,
     total_calls |-> total_calls, success_rate |-> success_rate,
     avg_latency_ms |-> avg_latency_ms]

\* metadata.tier of a card: the four tiers of the table and another value
Tiers == {"enterprise", "premium", "pro", "free", "other"}

RateChoices == {0, RateUnit \div 2, RateUnit}

LatencyChoices == {0, 100 * LatencyUnit, 4000 * LatencyUnit, 5000 * LatencyUnit, 7000 * LatencyUnit}

CallsChoices == {0, 9, 99999, 2000000}

StrategyNames == {"performance", "semantic", "revenue", "hybrid", "unknown"}

RankQueries == {<<>>, <<"hello">>, <<"weather", "forecast">>}

RankTags == {None, Some(<<>>), Some(<<"weather">>), Some(<<"hotel">>)}

\* one agent with every combination of metrics, tier and tags
SingleAgents ==
    {AgentRow("acme/weather", <<"weather", "agent">>, <<"weather", "forecast">>,
              tags, tier, calls, rate, latency) :
        tags \in {<<>>, <<"weather">>, <<"weather", "hotel">>}, tier \in Tiers,
        calls \in CallsChoices, rate \in RateChoices, latency \in LatencyChoices}

\* agents to be ranked together: p1 and p2 score alike under every strategy
\* for a query without their words, p3 and p4 differ
PoolAgents ==
    {AgentRow("p1", <<"weather", "agent">>, <<"weather", "forecast">>, <<"weather">>,
              "free", 0, RateUnit, 0),
     AgentRow("p2", <<"legacy">>, <<"forecast">>, <<"weather">>, "free", 0, RateUnit, 0),
     AgentRow("p3", <<"travel", "agent">>, <<"hotel", "booking">>, <<"hotel", "weather">>,
              "enterprise", 9, RateUnit, 100 * LatencyUnit),
     AgentRow("p4", <<"draft">>, <<"draft">>, <<"weather">>, "pro", 9,
              RateUnit \div 2, 4000 * LatencyUnit)}

\* the lists of up to n different agents of a pool
RECURSIVE ListsUpTo(_, _)
ListsUpTo(pool, n) ==
    IF n = 0 THEN {<<>>}
    ELSE LET shorter == ListsUpTo(pool, n - 1) IN
         shorter \cup {Append(l, a) : l \in shorter, a \in pool}

AgentLists ==
    {l \in ListsUpTo(PoolAgents, MaxRanked) :
        \A i, j \in 1..Len(l) : i # j => l[i] # l[j]}

\* the tags an agent of the example scenario has besides 'weather'
ExtraTags == {<<>>, <<"hotel">>, <<"hotel", "flights">>}

\* the example scenario: both agents tagged 'weather', the first with
\* success_rate 1.0 and 100 ms, the second with 0.5 and 4000 ms
FirstAgents ==
    {AgentRow("first", <<"sunny">>, <<"forecast", "service">>, <<"weather">> \o extra,
              tier, calls, RateUnit, 100 * LatencyUnit) :
        extra \in ExtraTags, tier \in Tiers, calls \in {0, 99999}}

SecondAgents ==
    {AgentRow("second", <<"weather", "agent">>, <<"forecast", "service">>,
              <<"weather">> \o extra, tier, calls, RateUnit \div 2, 4000 * LatencyUnit) :
        extra \in ExtraTags, tier \in Tiers, calls \in {0, 99999}}

\* queries without a word of the two agents; "eat" is part of the name "weather"
ScenarioQueries == {<<"hello">>, <<"eat">>}

RankCall(agents, query, skill_tags, strategy) ==
    [pc |-> "called", agents |-> agents, query |-> query, skill_tags |-> skill_tags,
     strategy |-> strategy, scores |-> <<>>, ranked |-> <<>>]

\* calls with one agent: the parts of its score are what matters
SingleCalls ==
    {RankCall(<<a>>, q, t, "hybrid") :
        a \in SingleAgents, q \in RankQueries, t \in RankTags}

\* calls with a list of agents under each strategy
ListCalls ==
    {RankCall(l, q, t, st) :
        l \in AgentLists, q \in RankQueries, t \in RankTags, st \in StrategyNames}

\* calls of the example scenario, the two agents in either order
ScenarioCalls ==
    {RankCall(l, q, Some(<<"weather">>), "hybrid") :
        l \in UNION {{<<a, b>>, <<b, a>>} : a \in FirstAgents, b \in SecondAgents},
        q \in ScenarioQueries}

\* what each strategy and each part of the hybrid score gives for an agent, and
\* the score (times 20) rank_agents sorts by
ScoresOf(agent, query, skill_tags, strategy) ==
    [skill_match |-> SkillMatchScore(agent, skill_tags),
     performance |-> PerformanceScore(agent),
     latency |-> LatencyScore(agent),
     semantic |-> SemanticScore(agent, query),
     revenue |-> RevenueScore(agent),
     freshness |-> FreshnessScore(agent),
     hybrid20 |-> HybridScore20(agent, query, skill_tags),
     score20 |-> StrategyScore(strategy, agent, query, skill_tags)]

RankingInit ==
    /\ generated = {}
    /\ lastSign = NoSignCall
    /\ lastVerify = NoVerifyCall
    /\ directory = <<>>
    /\ req = <<>>
    /\ logs = <<>>
    /\ served = 0
    /\ \/ rank \in SingleCalls
       \/ rank \in ListCalls
       \/ rank \in ScenarioCalls
    /\ relay = NoRelayCall

\* rank_agents(agents, query, skill_tags, strategy) runs
RankAgents ==
    /\ rank.pc = "called"
    /\ rank' = [rank EXCEPT
            !.pc = "returned",
            !.scores = [i \in 1..Len(rank.agents) |->
                ScoresOf(rank.agents[i], rank.query, rank.skill_tags, rank.strategy)],
            !.ranked = rank_agents(rank.agents, rank.query, rank.skill_tags, rank.strategy)]
    /\ UNCHANGED <<idVars, orchVars, relay>>

RankingNext == RankAgents

SpecRanking == RankingInit /\ [][RankingNext]_vars

\* ---------------------------------------------------------------- rank_agents: claims
\* the position of an agent in a list of different agents
PosIn(agents, agent) == CHOOSE i \in 1..Len(agents) : agents[i] = agent

\* the score (times 20) the call gave to an agent of its input
ScoreIn(agent) == rank.scores[PosIn(rank.agents, agent)].score20

\* a score in units of 1/ScoreUnit is in [0,100]
InRange(score) == 0 <= score /\ score <= 100 * ScoreUnit

C18_ComponentsInRange ==
    rank.pc = "returned" =>
        \A i \in 1..Len(rank.scores) :
            /\ InRange(rank.scores[i].skill_match)
            /\ InRange(rank.scores[i].performance)
            /\ InRange(rank.scores[i].semantic)
            /\ InRange(rank.scores[i].revenue)
            /\ InRange(rank.scores[i].freshness)
            /\ 0 <= rank.scores[i].score20
            /\ rank.scores[i].score20 <= 100 * 20 * ScoreUnit

\* C25: the latency part of the Performance score is
\* max(0, 30 - (avg_latency_ms/5000)*30) for every avg_latency_ms >= 0: 30
\* points at 0 ms, falling linearly to 0 points at 5000 ms and above.
C25_LatencyScoreFormula ==
    rank.pc = "returned" =>
        \A i \in 1..Len(rank.agents) :
            rank.scores[i].latency
                = Max(0, 30 * ScoreUnit
                         - rank.agents[i].avg_latency_ms
                           * ((30 * ScoreUnit) \div (5000 * LatencyUnit)))

\* C19: rank_agents returns a permutation of its input in descending order of
\* the score of the chosen strategy, and agents with equal scores keep the
\* order they had in the input.
C19_StablePermutation ==
    rank.pc = "returned" =>
        /\ Len(rank.ranked) = Len(rank.agents)
        /\ Range(rank.ranked) = Range(rank.agents)
        /\ \A i, j \in 1..Len(rank.ranked) :
              i < j =>
                /\ ScoreIn(rank.ranked[i]) >= ScoreIn(rank.ranked[j])
                /\ ScoreIn(rank.ranked[i]) = ScoreIn(rank.ranked[j])
                      => PosIn(rank.agents, rank.ranked[i]) < PosIn(rank.agents, rank.ranked[j])

\* three agents, two of them with equal scores, and the result is not the input
C19_Witness ==
    /\ rank.pc = "returned"
    /\ Len(rank.agents) = 3
    /\ rank.ranked # rank.agents
    /\ \E i, j \in 1..3 : i # j /\ rank.scores[i].score20 = rank.scores[j].score20
    /\ \E i, j \in 1..3 : rank.scores[i].score20 # rank.scores[j].score20

\* the call ranked the two agents of the example scenario
ScenarioRanked ==
    /\ rank.pc = "returned"
    /\ Len(rank.agents) = 2
    /\ Ids(rank.agents) = {"first", "second"}

\* the agent of the ranked call with this id
AgentOf(agent_id) == CHOOSE a \in Range(rank.agents) : a.agent_id = agent_id

\* the first agent of the scenario is ranked strictly above the second
FirstAboveSecond ==
    /\ rank.ranked[1].agent_id = "first"
    /\ rank.ranked[2].agent_id = "second"
    /\ ScoreIn(AgentOf("first")) > ScoreIn(AgentOf("second"))

\* no word of the query occurs in the description or the name of the agent
NoQueryOverlap(agent) ==
    \A word \in Range(rank.query) :
        word \notin Range(agent.description) /\ ~InText(word, agent.name)

NoDid == "None"

\* the did column of a registered agent: the DID its owner registered it
\* under, or none
DidOf(agent) ==
    CASE agent.agent_id = "acme/weather" -> "did:poros:ed25519:weather"
      [] agent.agent_id = "acme/travel" -> "did:poros:ed25519:travel"
      [] OTHER -> NoDid

\* the owner of an agent deactivates it
Deactivate ==
    /\ relay.pc # "done"
    /\ \E i \in 1..Len(directory) :
          /\ directory[i].is_active
          /\ directory' = [directory EXCEPT ![i].is_active = FALSE]
    /\ UNCHANGED <<req, logs, served, idVars, rank, relay>>

\* the verbs that forward a request to an agent
RelayVerbs == {"query", "propose", "commit", "cancel"}

\* the agent_did of the requests: the DIDs of two agents and one of no agent
RelayDids ==
    {"did:poros:ed25519:weather", "did:poros:ed25519:travel", "did:poros:ed25519:nobody"}

\* how the forwarded call can end: a 2xx answer whose body is a JSON object
\* with the fields of the verb's response, a JSON object without them, JSON
\* that is not an object, or not JSON; or no 2xx answer
RelayOutcomes ==
    {"json_object", "json_object_bare", "json_not_object", "not_json",
     "connect_error", "timeout", "http_status"}

\* session.exec(select(RegisteredAgent).where(did == agent_did)).first(): the
\* position of the row, 0 for None
FindByDid(dir, agent_did) ==
    IF \E i \in 1..Len(dir) : DidOf(dir[i]) # NoDid /\ DidOf(dir[i]) = agent_did
    THEN CHOOSE i \in 1..Len(dir) :
            /\ DidOf(dir[i]) # NoDid /\ DidOf(dir[i]) = agent_did
            /\ \A j \in 1..(i - 1) : ~(DidOf(dir[j]) # NoDid /\ DidOf(dir[j]) = agent_did)
    ELSE 0

\* the handlers up to the forwarded call: 404 when no row has the DID, 400
\* from query_agent (the only handler that looks at is_active) when the agent
\* is not active, else the call is sent
RelayLookup(dir, verb, agent_did) ==
    LET i == FindByDid(dir, agent_did) IN
    IF i = 0
    THEN [NoRelayCall EXCEPT !.pc = "done", !.verb = verb, !.agent_did = agent_did,
                             !.status = 404]
    ELSE IF verb = "query" /\ ~dir[i].is_active
    THEN [NoRelayCall EXCEPT !.pc = "done", !.verb = verb, !.agent_did = agent_did,
                             !.status = 400]
    ELSE [NoRelayCall EXCEPT !.pc = "forwarded", !.verb = verb, !.agent_did = agent_did,
                             !.to = dir[i].agent_id, !.to_active = dir[i].is_active]

\* the status the handler ends with.  A connection error, a timeout and
\* raise_for_status on a non-2xx answer raise httpx.HTTPError inside the try
\* block: 502 from the except clause.  A JSON object gives 200 when the
\* response model can be built from it: QueryResponse takes any object, the
\* other models need string fields.  response.json() on a body that is not
\* JSON, .get on JSON that is not an object and the validation error of the
\* response model are no httpx.HTTPError: they leave the handler, 500.
RelayStatus(verb, outcome) ==
    IF outcome \in {"connect_error", "timeout", "http_status"} THEN 502
    ELSE IF outcome = "json_object" THEN 200
    ELSE IF outcome = "json_object_bare" /\ verb = "query" THEN 200
    ELSE 500

\* discover_agents: the active agents with the capability among their tags
DiscoverAgents(dir, capability) ==
    SelectSeq(SelectSeq(dir, LAMBDA a : a.is_active),
              LAMBDA a : capability \in Range(a.skills_tags))

RelayInit ==
    /\ generated = {}
    /\ lastSign = NoSignCall
    /\ lastVerify = NoVerifyCall
    /\ directory = <<>>
    /\ req = [r \in Slots |-> Idle]
    /\ logs = <<>>
    /\ served = 0
    /\ rank = NoRankCall
    /\ relay = NoRelayCall

\* agents register before the verb endpoints are called
RelayRegister ==
    /\ relay.pc = "idle"
    /\ served = 0
    /\ RegisterAgent
    /\ relay' = relay

\* POST /orchestrate/query, /propose, /commit, /cancel
RelayStart ==
    /\ relay.pc = "idle"
    /\ \E verb \in RelayVerbs, agent_did \in RelayDids :
          relay' = RelayLookup(directory, verb, agent_did)
    /\ UNCHANGED <<orchVars, idVars, rank>>

\* the forwarded call ends and the handler runs to its end
RelayReturns ==
    /\ relay.pc = "forwarded"
    /\ \E outcome \in RelayOutcomes :
          relay' = [relay EXCEPT !.pc = "done", !.outcome = outcome,
                                 !.status = RelayStatus(relay.verb, outcome),
                                 !.passed = RelayStatus(relay.verb, outcome) = 200]
    /\ UNCHANGED <<orchVars, idVars, rank>>

\* POST /orchestrate/discover
RelayDiscover ==
    /\ relay.pc = "idle"
    /\ \E capability \in {"weather", "hotel"} :
          relay' = [NoRelayCall EXCEPT !.pc = "done", !.verb = "discover",
                                       !.capability = capability, !.status = 200,
                                       !.found = DiscoverAgents(directory, capability)]
    /\ UNCHANGED <<orchVars, idVars, rank>>

\* POST /api/orchestrator/orchestrate, up to the dispatch
RelayOrchestrate ==
    /\ req[1].pc = "idle"
    /\ \E request \in OverlapRequests : OrchestrateBegin(1, request)
    /\ relay' = relay

RelayNext ==
    \/ RelayRegister
    \/ Deactivate
    \/ RelayStart
    \/ RelayReturns
    \/ RelayDiscover
    \/ RelayOrchestrate

SpecRelay == RelayInit /\ [][RelayNext]_vars

\* ---------------------------------------------------------------- verb endpoints: claims
\* C22: for query, propose, commit and cancel: when no registered agent has
\* the DID of the request the answer is 404 and nothing is forwarded; when
\* the forwarded call fails (connection error, timeout, non-2xx answer, a
\* body that is not a usable JSON object) the answer is 502, neither a
\* success nor a generic server error; when the agent answers with a JSON
\* object the answer is 200 and carries it.
C22_RelayErrors ==
    (relay.pc = "done" /\ relay.verb \in RelayVerbs)
    => /\ FindByDid(directory, relay.agent_did) = 0
             => (relay.status = 404 /\ relay.to = "")
       /\ relay.outcome \in {"connect_error", "timeout", "http_status",
                             "not_json", "json_not_object"}
             => relay.status = 502
       /\ relay.outcome = "json_object" => (relay.status = 200 /\ relay.passed)

\* C28: no request is forwarded to an agent whose is_active flag is false:
\* not by a relay verb, not in the result of discover, not by the dispatch of
\* orchestrate.
C28_NoForwardToInactive ==
    /\ relay.to # "" => relay.to_active
    /\ \A i \in 1..Len(relay.found) : relay.found[i].is_active
    /\ \A r \in Slots : \A i \in 1..Len(req[r].selected) : req[r].selected[i].is_active

====
